---- MODULE Spec2Model ----
(***************************************************************************)
(* Model of src/main.py: a Telegram webhook bot that, for a contract       *)
(* address, looks up the creation transaction on BaseScan, decodes its     *)
(* call data with web3 and replies with the deployToken parameters.        *)
(*                                                                         *)
(* Python values are records tagged by "t"; Python str values are TLA+     *)
(* strings, on which TLC evaluates Len, \o, SubSeq, Head and Tail.         *)
(***************************************************************************)
EXTENDS Integers, Sequences, FiniteSets, TLC

\* ------------------------------------------------------------------------
\* Python values
\* ------------------------------------------------------------------------

None == [t |-> "none"]

PStr(s) == [t |-> "str", s |-> s]

PInt(n) == [t |-> "int", n |-> n]

PBool(b) == [t |-> "bool", b |-> b]

\* a list: items is the sequence of its elements
PList(xs) == [t |-> "list", items |-> xs]

\* a dict: items is the sequence of <<key, value>> pairs in insertion order
PDict(kvs) == [t |-> "dict", items |-> kvs]

\* a float: kind is "finite", "inf" or "nan"; a finite one is
\* (-1)^neg * 0.digits * 10^decpt, digits without leading or trailing zeros
\* ("" for zero)
PFloat(kind, neg, digits, decpt) ==
    [t |-> "float", kind |-> kind, neg |-> neg, digits |-> digits, decpt |-> decpt]

\* an exception in flight, of class e
Raise(e) == [t |-> "raise", e |-> e]

\* a local variable that has not been bound yet
Unset == [t |-> "unset"]

\* bool(v)
Truthy(v) ==
    CASE v.t = "none" -> FALSE
      [] v.t = "bool" -> v.b
      [] v.t = "int" -> v.n # 0
      [] v.t = "float" -> v.kind # "finite" \/ v.digits # ""
      [] v.t = "str" -> v.s # ""
      [] v.t = "list" -> v.items # <<>>
      [] v.t = "dict" -> v.items # <<>>
      [] OTHER -> TRUE

\* key in d, for a dict d
HasKey(d, k) == \E i \in 1..Len(d.items) : d.items[i][1] = k

\* d.get(k, default), for a dict d
Get(d, k, default) ==
    IF HasKey(d, k)
    THEN d.items[CHOOSE i \in 1..Len(d.items) : d.items[i][1] = k][2]
    ELSE default

\* d[k] = v on the item sequence of a dict: a key already present keeps its place
DictSet(kvs, k, v) ==
    IF \E i \in 1..Len(kvs) : kvs[i][1] = k
    THEN [i \in 1..Len(kvs) |-> IF kvs[i][1] = k THEN <<k, v>> ELSE kvs[i]]
    ELSE Append(kvs, <<k, v>>)

\* ------------------------------------------------------------------------
\* Strings
\* ------------------------------------------------------------------------

\* s[i-1:i], the i-th character (1-based) as a string
Ch(s, i) == SubSeq(s, i, i)

\* s[i-1:j], a Python slice: positions past the end are left out
Slice(s, i, j) == SubSeq(s, i, IF j > Len(s) THEN Len(s) ELSE j)

\* s[i-1:i], or "" past either end
At(s, i) == IF i >= 1 /\ i <= Len(s) THEN SubSeq(s, i, i) ELSE ""

\* c in s, for a character c
HasChar(s, c) == \E i \in 1..Len(s) : Ch(s, i) = c

\* chr(96), the Markdown backquote of the replies.  A TLA+ string literal
\* holds a backquote only with an apostrophe somewhere after it, so the
\* character is cut out of the literal of the two
BackQuote == SubSeq("`'", 1, 1)

\* the ASCII characters chr(1) .. chr(127) in order, the alphabet of the
\* strings of the model; the control characters that have no escape in a
\* TLA+ string stand in the literal as they are
Ascii ==
    "\t\n\f\r" \o
    " !\"#$%&'()*+,-./0123456789:;<=>?@ABCDEFGHIJKLMNOPQRSTUVWXYZ[\\]^_" \o
    BackQuote \o
    "abcdefghijklmnopqrstuvwxyz{|}~"

\* chr(n), for 1 <= n <= 127
Chr(n) == Ch(Ascii, n)

\* ord(c), for a character c of Ascii
Ord(c) == CHOOSE n \in 1..Len(Ascii) : Ch(Ascii, n) = c

\* the ASCII characters str.isspace() accepts, which str.strip() removes:
\* \t \n \v \f \r, the separators 0x1c .. 0x1f, and the space
Whitespace == {Chr(n) : n \in (9..13) \cup (28..32)}

\* the characters the JSON scanner skips between tokens
JsonWhitespace == {" ", "\t", "\n", "\r"}

\* the characters below 0x20, which a JSON string may not hold unescaped
ControlChars == {Chr(n) : n \in 1..31}

Digits == {"0", "1", "2", "3", "4", "5", "6", "7", "8", "9"}

HexDigits == Digits \cup {"a", "b", "c", "d", "e", "f", "A", "B", "C", "D", "E", "F"}

RECURSIVE LStrip(_)
LStrip(s) ==
    IF s # "" /\ Head(s) \in Whitespace THEN LStrip(Tail(s)) ELSE s

RECURSIVE RStrip(_)
RStrip(s) ==
    IF s # "" /\ Ch(s, Len(s)) \in Whitespace
    THEN RStrip(SubSeq(s, 1, Len(s) - 1))
    ELSE s

\* s.strip()
Strip(s) == RStrip(LStrip(s))

\* s.startswith(prefix)
StartsWith(s, prefix) ==
    Len(s) >= Len(prefix) /\ SubSeq(s, 1, Len(prefix)) = prefix

\* sep.join(lines)
RECURSIVE Join(_, _)
Join(lines, sep) ==
    IF lines = <<>> THEN ""
    ELSE IF Len(lines) = 1 THEN lines[1]
    ELSE lines[1] \o sep \o Join(Tail(lines), sep)

\* n as two lower-case hexadecimal digits, for 0 <= n <= 255
Hex2(n) ==
    LET hex == "0123456789abcdef"
    IN  Ch(hex, (n \div 16) + 1) \o Ch(hex, (n % 16) + 1)

\* one character of s in repr(s), quoted by q
ReprChar(c, q) ==
    IF c = q \/ c = "\\" THEN "\\" \o c
    ELSE IF c = "\t" THEN "\\t"
    ELSE IF c = "\n" THEN "\\n"
    ELSE IF c = "\r" THEN "\\r"
    ELSE IF c \in ControlChars \/ c = Chr(127) THEN "\\x" \o Hex2(Ord(c))
    ELSE c

RECURSIVE ReprChars(_, _)
ReprChars(s, q) ==
    IF s = "" THEN "" ELSE ReprChar(Head(s), q) \o ReprChars(Tail(s), q)

\* repr(s) of a str: quoted by " when s holds ' and no ", by ' otherwise
ReprStr(s) ==
    LET q == IF HasChar(s, "'") /\ ~HasChar(s, "\"") THEN "\"" ELSE "'"
    IN  q \o ReprChars(s, q) \o q

\* n zeros
RECURSIVE Zeros(_)
Zeros(n) == IF n <= 0 THEN "" ELSE "0" \o Zeros(n - 1)

\* repr(x) of a float: the shortest digits that give x back, in exponent
\* notation when the decimal point is left of 0.0001 or right of 16 digits
ReprFloat(f) ==
    LET sign == IF f.neg THEN "-" ELSE ""
        n == Len(f.digits)
        e == f.decpt - 1
        abs == IF e < 0 THEN 0 - e ELSE e
    IN  IF f.kind = "nan" THEN "nan"
        ELSE IF f.kind = "inf" THEN sign \o "inf"
        ELSE IF n = 0 THEN sign \o "0.0"
        ELSE IF f.decpt <= -4 \/ f.decpt > 16
             THEN sign \o Ch(f.digits, 1)
                  \o (IF n > 1 THEN "." \o SubSeq(f.digits, 2, n) ELSE "")
                  \o "e" \o (IF e < 0 THEN "-" ELSE "+")
                  \o (IF abs < 10 THEN "0" ELSE "") \o ToString(abs)
        ELSE IF f.decpt <= 0
             THEN sign \o "0." \o Zeros(0 - f.decpt) \o f.digits
        ELSE IF f.decpt >= n
             THEN sign \o f.digits \o Zeros(f.decpt - n) \o ".0"
        ELSE sign \o SubSeq(f.digits, 1, f.decpt) \o "."
                  \o SubSeq(f.digits, f.decpt + 1, n)

\* repr(v) and str(v) of the values above
RECURSIVE Repr(_)
RECURSIVE ReprItems(_)
RECURSIVE ReprPairs(_)
Repr(v) ==
    CASE v.t = "none" -> "None"
      [] v.t = "bool" -> IF v.b THEN "True" ELSE "False"
      [] v.t = "int" -> ToString(v.n)
      [] v.t = "float" -> ReprFloat(v)
      [] v.t = "str" -> ReprStr(v.s)
      [] v.t = "list" -> "[" \o ReprItems(v.items) \o "]"
      [] v.t = "dict" -> "{" \o ReprPairs(v.items) \o "}"

ReprItems(xs) ==
    IF xs = <<>> THEN ""
    ELSE IF Len(xs) = 1 THEN Repr(xs[1])
    ELSE Repr(xs[1]) \o ", " \o ReprItems(Tail(xs))

ReprPairs(kvs) ==
    IF kvs = <<>> THEN ""
    ELSE LET one == ReprStr(kvs[1][1]) \o ": " \o Repr(kvs[1][2])
         IN  IF Len(kvs) = 1 THEN one ELSE one \o ", " \o ReprPairs(Tail(kvs))

\* str(v), which f"{v}" uses
Str(v) == IF v.t = "str" THEN v.s ELSE Repr(v)

\* ------------------------------------------------------------------------
\* json.loads, as the scanner of the json module parses a text: objects,
\* arrays, strings, numbers, true, false, null, NaN and Infinity.  A parse
\* result is [ok, v, next]: the value and the index after it.  Strings are
\* over Ascii, integers within the range of TLC, and floats within the
\* range where the digits written are the digits repr gives back (at most
\* FloatDigits significant digits, no subnormal); OutsideModel marks the rest.
\* ------------------------------------------------------------------------

ParseFail == [ok |-> FALSE, v |-> None, next |-> 0]

ParseOk(v, next) == [ok |-> TRUE, v |-> v, next |-> next]

\* a value the model does not define
OutsideModel == CHOOSE v \in {} : TRUE

RECURSIVE SkipWs(_, _)
SkipWs(s, i) ==
    IF i <= Len(s) /\ Ch(s, i) \in JsonWhitespace THEN SkipWs(s, i + 1) ELSE i

\* the character an escape \c stands for; "" when \c is no one-letter escape
Unescape(c) ==
    CASE c = "\"" -> "\""
      [] c = "\\" -> "\\"
      [] c = "/" -> "/"
      [] c = "b" -> Chr(8)
      [] c = "f" -> "\f"
      [] c = "n" -> "\n"
      [] c = "r" -> "\r"
      [] c = "t" -> "\t"
      [] OTHER -> ""

HexValue(c) ==
    CASE c \in Digits -> Ord(c) - Ord("0")
      [] c \in {"a", "b", "c", "d", "e", "f"} -> Ord(c) - Ord("a") + 10
      [] c \in {"A", "B", "C", "D", "E", "F"} -> Ord(c) - Ord("A") + 10

\* the code point of the four hexadecimal digits h
CodePoint(h) ==
    ((HexValue(Ch(h, 1)) * 16 + HexValue(Ch(h, 2))) * 16 + HexValue(Ch(h, 3))) * 16
    + HexValue(Ch(h, 4))

\* the body of a string literal from index i (after the opening quote), acc so far
RECURSIVE ParseStringBody(_, _, _)
ParseStringBody(s, i, acc) ==
    IF i > Len(s) THEN ParseFail
    ELSE LET c == Ch(s, i) IN
         IF c = "\"" THEN ParseOk(PStr(acc), i + 1)
         ELSE IF c \in ControlChars THEN ParseFail
         ELSE IF c = "\\"
              THEN IF At(s, i + 1) = "u"
                   THEN LET h == Slice(s, i + 2, i + 5) IN
                        IF Len(h) # 4 \/ \E k \in 1..Len(h) : Ch(h, k) \notin HexDigits
                        THEN ParseFail
                        ELSE IF CodePoint(h) \in 1..Len(Ascii)
                             THEN ParseStringBody(s, i + 6, acc \o Chr(CodePoint(h)))
                             ELSE OutsideModel
                   ELSE IF i + 1 > Len(s) \/ Unescape(Ch(s, i + 1)) = ""
                        THEN ParseFail
                        ELSE ParseStringBody(s, i + 2, acc \o Unescape(Ch(s, i + 1)))
         ELSE ParseStringBody(s, i + 1, acc \o c)

DigitValue(c) ==
    CASE c = "0" -> 0 [] c = "1" -> 1 [] c = "2" -> 2 [] c = "3" -> 3
      [] c = "4" -> 4 [] c = "5" -> 5 [] c = "6" -> 6 [] c = "7" -> 7
      [] c = "8" -> 8 [] c = "9" -> 9

\* the digits from index i on, acc so far
RECURSIVE ParseDigits(_, _, _)
ParseDigits(s, i, acc) ==
    IF i <= Len(s) /\ Ch(s, i) \in Digits
    THEN ParseDigits(s, i + 1, 10 * acc + DigitValue(Ch(s, i)))
    ELSE ParseOk(PInt(acc), i)

\* the index after the digits that start at index i
RECURSIVE DigitRun(_, _)
DigitRun(s, i) == IF At(s, i) \in Digits THEN DigitRun(s, i + 1) ELSE i

\* the significant digits up to which repr gives back the digits written
FloatDigits == 15

\* the decimal exponent of the largest float, 1.7976931348623157e+308
MaxExp10 == 308

\* the digits from which a number of exponent MaxExp10 and of at most
\* FloatDigits digits rounds to infinity
InfDigits == "1797693134862316"

\* the decimal exponent below which every number is a normal float no more
MinNormalExp10 == -307

\* the decimal exponent below which every number rounds to zero
MinExp10 == -324

\* an exponent no number of the model comes near
ExpCap == 100000

\* the value of the digits of s from i to j - 1, cut off at ExpCap
RECURSIVE ExpValue(_, _, _, _)
ExpValue(s, i, j, acc) ==
    IF i >= j THEN acc
    ELSE LET n == 10 * acc + DigitValue(Ch(s, i))
         IN  ExpValue(s, i + 1, j, IF n > ExpCap THEN ExpCap ELSE n)

\* the digits a, read as a fraction 0.a, are at least 0.b
RECURSIVE DigitsAtLeast(_, _)
DigitsAtLeast(a, b) ==
    IF b = "" THEN TRUE
    ELSE LET x == IF a = "" THEN 0 ELSE DigitValue(Head(a))
             y == DigitValue(Head(b))
         IN  IF x # y THEN x > y
             ELSE DigitsAtLeast(IF a = "" THEN "" ELSE Tail(a), Tail(b))

RECURSIVE StripLeadingZeros(_)
StripLeadingZeros(d) ==
    IF d # "" /\ Head(d) = "0" THEN StripLeadingZeros(Tail(d)) ELSE d

RECURSIVE StripTrailingZeros(_)
StripTrailingZeros(d) ==
    IF d # "" /\ Ch(d, Len(d)) = "0"
    THEN StripTrailingZeros(SubSeq(d, 1, Len(d) - 1))
    ELSE d

\* float(text) of a number text with the digits d and the decimal point
\* after point of them
MakeFloat(neg, d, point) ==
    LET lead == StripLeadingZeros(d)
        digits == StripTrailingZeros(lead)
        decpt == point - (Len(d) - Len(lead))
    IN  IF digits = "" \/ decpt - 1 < MinExp10 THEN PFloat("finite", neg, "", 0)
        ELSE IF decpt - 1 > MaxExp10 THEN PFloat("inf", neg, "", 0)
        ELSE IF Len(digits) > FloatDigits \/ decpt - 1 < MinNormalExp10
             THEN OutsideModel
        ELSE IF decpt - 1 = MaxExp10 /\ DigitsAtLeast(digits, InfDigits)
             THEN PFloat("inf", neg, "", 0)
        ELSE PFloat("finite", neg, digits, decpt)

\* (-?(?:0|[1-9]\d*))(\.\d+)?([eE][-+]?\d+)? at index i: an int when there
\* is neither a fraction nor an exponent, else a float
ParseNumber(s, i) ==
    LET neg == At(s, i) = "-"
        j == IF neg THEN i + 1 ELSE i
    IN  IF At(s, j) \notin Digits THEN ParseFail
        ELSE LET intEnd == IF Ch(s, j) = "0" THEN j + 1 ELSE DigitRun(s, j)
                 fracEnd == IF At(s, intEnd) = "." /\ At(s, intEnd + 1) \in Digits
                            THEN DigitRun(s, intEnd + 1)
                            ELSE intEnd
                 expAt == IF At(s, fracEnd + 1) \in {"+", "-"}
                          THEN fracEnd + 2
                          ELSE fracEnd + 1
                 hasExp == At(s, fracEnd) \in {"e", "E"} /\ At(s, expAt) \in Digits
                 expEnd == IF hasExp THEN DigitRun(s, expAt) ELSE fracEnd
                 exp == IF ~hasExp THEN 0
                        ELSE IF At(s, fracEnd + 1) = "-"
                             THEN 0 - ExpValue(s, expAt, expEnd, 0)
                             ELSE ExpValue(s, expAt, expEnd, 0)
             IN  IF fracEnd = intEnd /\ ~hasExp
                 THEN LET n == IF Ch(s, j) = "0" THEN 0 ELSE ParseDigits(s, j, 0).v.n
                      IN  ParseOk(PInt(IF neg THEN 0 - n ELSE n), intEnd)
                 ELSE ParseOk(MakeFloat(neg,
                                        SubSeq(s, j, intEnd - 1)
                                        \o SubSeq(s, intEnd + 1, fracEnd - 1),
                                        (intEnd - j) + exp),
                              expEnd)

RECURSIVE ParseValue(_, _)
RECURSIVE ParseArrayItems(_, _, _)
RECURSIVE ParseObjectItems(_, _, _)
ParseValue(s, i) ==
    IF i > Len(s) THEN ParseFail
    ELSE LET c == Ch(s, i) IN
         CASE c = "{" ->
                LET j == SkipWs(s, i + 1) IN
                IF j <= Len(s) /\ Ch(s, j) = "}" THEN ParseOk(PDict(<<>>), j + 1)
                ELSE ParseObjectItems(s, j, <<>>)
           [] c = "[" ->
                LET j == SkipWs(s, i + 1) IN
                IF j <= Len(s) /\ Ch(s, j) = "]" THEN ParseOk(PList(<<>>), j + 1)
                ELSE ParseArrayItems(s, j, <<>>)
           [] c = "\"" -> ParseStringBody(s, i + 1, "")
           [] c \in Digits \/ (c = "-" /\ At(s, i + 1) \in Digits) -> ParseNumber(s, i)
           [] Slice(s, i, i + 3) = "true" -> ParseOk(PBool(TRUE), i + 4)
           [] Slice(s, i, i + 4) = "false" -> ParseOk(PBool(FALSE), i + 5)
           [] Slice(s, i, i + 3) = "null" -> ParseOk(None, i + 4)
           [] Slice(s, i, i + 2) = "NaN" -> ParseOk(PFloat("nan", FALSE, "", 0), i + 3)
           [] Slice(s, i, i + 7) = "Infinity" ->
                ParseOk(PFloat("inf", FALSE, "", 0), i + 8)
           [] Slice(s, i, i + 8) = "-Infinity" ->
                ParseOk(PFloat("inf", TRUE, "", 0), i + 9)
           [] OTHER -> ParseFail

\* value (, value)* ] from index i, the elements so far in acc
ParseArrayItems(s, i, acc) ==
    LET r == ParseValue(s, i) IN
    IF ~r.ok THEN ParseFail
    ELSE LET j == SkipWs(s, r.next) IN
         IF j > Len(s) THEN ParseFail
         ELSE IF Ch(s, j) = "]" THEN ParseOk(PList(Append(acc, r.v)), j + 1)
         ELSE IF Ch(s, j) = "," THEN ParseArrayItems(s, SkipWs(s, j + 1), Append(acc, r.v))
         ELSE ParseFail

\* "key" : value (, "key" : value)* } from index i, the pairs so far in acc
ParseObjectItems(s, i, acc) ==
    IF i > Len(s) \/ Ch(s, i) # "\"" THEN ParseFail
    ELSE LET k == ParseStringBody(s, i + 1, "") IN
         IF ~k.ok THEN ParseFail
         ELSE LET c == SkipWs(s, k.next) IN
              IF c > Len(s) \/ Ch(s, c) # ":" THEN ParseFail
              ELSE LET r == ParseValue(s, SkipWs(s, c + 1)) IN
                   IF ~r.ok THEN ParseFail
                   ELSE LET j == SkipWs(s, r.next)
                            kvs == DictSet(acc, k.v.s, r.v)
                        IN  IF j > Len(s) THEN ParseFail
                            ELSE IF Ch(s, j) = "}" THEN ParseOk(PDict(kvs), j + 1)
                            ELSE IF Ch(s, j) = ","
                                 THEN ParseObjectItems(s, SkipWs(s, j + 1), kvs)
                            ELSE ParseFail

\* json.loads(x): the parsed value, or the exception raised
json_loads(x) ==
    IF x.t # "str" THEN Raise("TypeError")
    ELSE LET r == ParseValue(x.s, SkipWs(x.s, 1)) IN
         IF r.ok /\ SkipWs(x.s, r.next) > Len(x.s) THEN r.v
         ELSE Raise("JSONDecodeError")

\* ------------------------------------------------------------------------
\* The explorer and the ABI decoder
\* ------------------------------------------------------------------------

\* the {40} of the address pattern
AddressLen == 40

\* re.match(r"^0x[a-fA-F0-9]{40}$", s): $ also matches before a final newline
IsContractAddress(s) ==
    LET body == IF s # "" /\ Ch(s, Len(s)) = "\n" THEN SubSeq(s, 1, Len(s) - 1) ELSE s
    IN  /\ Len(body) = 2 + AddressLen
        /\ SubSeq(body, 1, 2) = "0x"
        /\ \A i \in 3..Len(body) : Ch(body, i) \in HexDigits

\* the try block of get_creation_txhash on the explorer's answer resp: the
\* parsed JSON body, or the exception requests.get or response.json() raises
get_creation_txhash_try(resp) ==
    IF resp.t = "raise" THEN resp
    ELSE IF resp.t # "dict" THEN Raise("AttributeError")
    ELSE LET results == Get(resp, "result", PList(<<>>)) IN
         IF ~Truthy(results) \/ results.t # "list" THEN None
         ELSE IF results.items[1].t # "dict" THEN Raise("AttributeError")
         ELSE Get(results.items[1], "txHash", None)

get_creation_txhash(resp) ==
    LET r == get_creation_txhash_try(resp) IN
    IF r.t = "raise" THEN None ELSE r

\* the try block of get_transaction_data
get_transaction_data_try(resp) ==
    IF resp.t = "raise" THEN resp
    ELSE IF resp.t # "dict" THEN Raise("AttributeError")
    ELSE Get(resp, "result", PDict(<<>>))

get_transaction_data(resp) ==
    LET r == get_transaction_data_try(resp) IN
    IF r.t = "raise" THEN PDict(<<>>) ELSE r

\* the functions of abi.json by selector.  abi.json is not part of the
\* source; the table stands for an ABI with deployToken and one other function.
ContractAbi ==
    { [selector |-> "d6f5e3ab", fn_name |-> "deployToken"],
      [selector |-> "a9059cbb", fn_name |-> "transfer"] }

LowerChar(c) ==
    CASE c = "A" -> "a" [] c = "B" -> "b" [] c = "C" -> "c"
      [] c = "D" -> "d" [] c = "E" -> "e" [] c = "F" -> "f"
      [] OTHER -> c

RECURSIVE Lower(_)
Lower(s) == IF s = "" THEN "" ELSE LowerChar(Head(s)) \o Lower(Tail(s))

IsHex(s) == \A i \in 1..Len(s) : Ch(s, i) \in HexDigits

\* s without an optional 0x prefix
HexBody(s) ==
    IF StartsWith(s, "0x") \/ StartsWith(s, "0X") THEN SubSeq(s, 3, Len(s)) ELSE s

\* contract.decode_function_input(data): HexBytes(data), the function of the
\* first four bytes, then the parameters, which the ABI codec decodes to
\* params (the decoded arguments, or the exception it raises)
decode_function_input(c, data, params) ==
    IF data.t # "str" THEN Raise("TypeError")
    ELSE LET body == HexBody(data.s) IN
         IF ~IsHex(body) THEN Raise("ValueError")
         ELSE LET padded == IF Len(body) % 2 = 1 THEN "0" \o body ELSE body
                  selector == Lower(Slice(padded, 1, 8))
              IN  IF ~\E f \in c : f.selector = selector THEN Raise("ValueError")
                  ELSE IF params.t = "raise" THEN params
                  ELSE [t |-> "tuple",
                        fn_name |-> (CHOOSE f \in c : f.selector = selector).fn_name,
                        args |-> params]

decode_input_with_web3(c, input_hex, params) ==
    LET r == decode_function_input(c, input_hex, params) IN
    IF r.t = "raise" THEN None
    ELSE PDict(<< <<"function", PStr(r.fn_name)>>, <<"args", r.args>> >>)

\* ------------------------------------------------------------------------
\* handle_message, between its calls
\* ------------------------------------------------------------------------

\* what a stretch of the handler ends in: a reply to send, an exception, or
\* the next call; locals are the local variables it bound on the way
ToReply(text, locals) == [kind |-> "reply", reply |-> text, locals |-> locals]

ToRaise(e, locals) == [kind |-> "raise", e |-> e, locals |-> locals]

ToNext(locals) == [kind |-> "next", locals |-> locals]

ProcessingReply(message_text) ==
    "Processing contract: " \o BackQuote \o message_text \o BackQuote

NoTxhashReply == "Could not find txhash from BaseScan."

NoTxDataReply == "Failed to retrieve transaction data from BaseScan."

NoInputReply == "No input data found in the transaction."

DecodeErrorReply == "Error decoding input data."

NotDeployTokenReply(function) ==
    "This is not a deployToken transaction (function: " \o Str(function) \o ")."

NoConfigReply == "deploymentConfig not found in the input data."

RecordHeader == "*Token Deployment Information:*"

\* the check of txhash left out
TxhashMissingNever(txhash) == FALSE

\* if not txhash
TxhashMissing(txhash) == ~Truthy(txhash)

\* lines 123-125
AfterTxhash(txhash) ==
    IF TxhashMissing(txhash)
    THEN ToReply(NoTxhashReply, [txhash |-> txhash])
    ELSE ToNext([txhash |-> txhash])

\* lines 128-137
AfterTxData(tx_data) ==
    IF ~Truthy(tx_data) THEN ToReply(NoTxDataReply, [tx_data |-> tx_data])
    ELSE IF tx_data.t # "dict" THEN ToRaise("AttributeError", [tx_data |-> tx_data])
    ELSE LET input_data_raw == Get(tx_data, "input", PStr(""))
             locals == [tx_data |-> tx_data, input_data_raw |-> input_data_raw]
         IN  IF ~Truthy(input_data_raw) THEN ToReply(NoInputReply, locals)
             ELSE IF input_data_raw.t \notin {"str", "list"} THEN ToRaise("TypeError", locals)
             ELSE ToNext(locals)

\* the function check left out
IsDeployTokenAlways(decoded) == TRUE

\* decoded.get("function") != "deployToken"
IsDeployToken(decoded) == Get(decoded, "function", None) = PStr("deployToken")

\* the except branch dropping the raw text
ContextFallbackEmpty(context_raw) == PDict(<<>>)

\* the except branch of the context parse
ContextFallback(context_raw) == PDict(<< <<"context", context_raw>> >>)

\* one pass of the loop over context_json.items()
ContextLine(key, value) ==
    IF Truthy(value) /\ Strip(Str(value)) # ""
    THEN IF key = "messageId"
         THEN << key \o ": [Link](" \o Str(value) \o ")" >>
         ELSE << key \o ": " \o Str(value) >>
    ELSE <<>>

RECURSIVE ContextLinesOf(_)
ContextLinesOf(kvs) ==
    IF kvs = <<>> THEN <<>>
    ELSE ContextLine(kvs[1][1], kvs[1][2]) \o ContextLinesOf(Tail(kvs))

\* lines 170-180
ContextLines(context_json) ==
    IF context_json.t = "dict" THEN ContextLinesOf(context_json.items)
    ELSE << Str(context_json) >>

\* lines 183-191
RecordReply(name, symbol, chain_id, image, context_formatted, creator_reward_recipient) ==
    RecordHeader \o "\n\n"
    \o "*Name:* " \o BackQuote \o Str(name) \o BackQuote \o "\n"
    \o "*Symbol:* " \o BackQuote \o Str(symbol) \o BackQuote \o "\n"
    \o "*Chain ID:* " \o BackQuote \o Str(chain_id) \o BackQuote \o "\n"
    \o "*Image:* [Link](" \o Str(image) \o ")\n\n"
    \o "*Context:*\n" \o context_formatted \o "\n\n"
    \o "*Creator Reward Recipient:* " \o BackQuote \o Str(creator_reward_recipient)
    \o BackQuote

\* lines 153-191, for dicts token_config and rewards_config
Extract(decoded, token_config, rewards_config) ==
    LET name == Get(token_config, "name", None)
        symbol == Get(token_config, "symbol", None)
        image == Get(token_config, "image", None)
        chain_id == Get(token_config, "originatingChainId", None)
        creator_reward_recipient == Get(rewards_config, "creatorRewardRecipient", None)
        context_raw == Get(token_config, "context", None)
        parsed == json_loads(context_raw)
        context_json == IF parsed.t = "raise" THEN ContextFallback(context_raw) ELSE parsed
        context_formatted == Join(ContextLines(context_json), "\n")
    IN  ToReply(RecordReply(name, symbol, chain_id, image, context_formatted,
                            creator_reward_recipient),
                [decoded |-> decoded, name |-> name, symbol |-> symbol,
                 image |-> image, chain_id |-> chain_id,
                 creator_reward_recipient |-> creator_reward_recipient,
                 context_raw |-> context_raw, context_json |-> context_json,
                 context_formatted |-> PStr(context_formatted)])

\* lines 140-193
AfterDecode(decoded) ==
    IF ~Truthy(decoded) THEN ToReply(DecodeErrorReply, [decoded |-> decoded])
    ELSE IF ~IsDeployToken(decoded)
         THEN ToReply(NotDeployTokenReply(Get(decoded, "function", None)),
                      [decoded |-> decoded])
    ELSE LET args == Get(decoded, "args", PDict(<<>>)) IN
         IF args.t # "dict" THEN ToRaise("AttributeError", [decoded |-> decoded])
         ELSE LET deployment_config == Get(args, "deploymentConfig", None) IN
              IF ~Truthy(deployment_config)
              THEN ToReply(NoConfigReply, [decoded |-> decoded])
              ELSE IF deployment_config.t # "dict"
                   THEN ToRaise("AttributeError", [decoded |-> decoded])
              ELSE LET token_config == Get(deployment_config, "tokenConfig", PDict(<<>>))
                       rewards_config == Get(deployment_config, "rewardsConfig", PDict(<<>>))
                   IN  IF token_config.t # "dict"
                       THEN ToRaise("AttributeError", [decoded |-> decoded])
                       ELSE IF rewards_config.t # "dict"
                       THEN ToRaise("AttributeError",
                                    [decoded |-> decoded,
                                     name |-> Get(token_config, "name", None),
                                     symbol |-> Get(token_config, "symbol", None),
                                     image |-> Get(token_config, "image", None),
                                     chain_id |-> Get(token_config, "originatingChainId",
                                                      None)])
                       ELSE Extract(decoded, token_config, rewards_config)

\* an except clause that catches the sending errors only
handle_message_except_narrow(e) ==
    IF e = "NetworkError" THEN "returned" ELSE "propagated"

\* except Exception of handle_message: the exception is logged, the handler returns
handle_message_except(e) == "returned"

\* ------------------------------------------------------------------------
\* What the collaborators may answer
\* ------------------------------------------------------------------------

\* the number of concurrent invocations of handle_message
MaxProcs == 2

Procs == 1..MaxProcs

ValidAddress == "0x4F9Fd6Be4a90f2620860d680c0d4d5Fb53d1A825"

\* update.message.text
FullMessages ==
    { ValidAddress,
      "  " \o ValidAddress \o "\n",
      "\f" \o ValidAddress,
      "0x4F9Fd6Be4a90",
      "0x4F9Fd6Be4a90f2620860d680c0d4d5Fb53d1A8zz",
      "hello",
      "" }

RateLimited ==
    PDict(<< <<"status", PStr("0")>>, <<"message", PStr("NOTOK")>>,
             <<"result", PStr("Max rate limit reached")>> >>)

\* answers to getcontractcreation
FullTxhashResps ==
    { Raise("Timeout"),
      PList(<<>>),
      PDict(<<>>),
      RateLimited,
      PDict(<< <<"result", PList(<<>>)>> >>),
      PDict(<< <<"result", PList(<< PStr("oops") >>)>> >>),
      PDict(<< <<"result", PList(<< PDict(<< <<"contractCreator", PStr("0xc1")>> >>) >>)>> >>),
      PDict(<< <<"result", PList(<< PDict(<< <<"txHash", PStr("")>> >>) >>)>> >>),
      PDict(<< <<"result", PList(<< PDict(<< <<"txHash", PStr("0xabc1")>> >>) >>)>> >>) }

DeployInput == "0xd6f5e3ab00"

TransferInput == "0xA9059CBB00"

\* the input field of a transaction, a string in the JSON-RPC answer
FullInputs ==
    { PStr(DeployInput),
      PStr(TransferInput),
      PStr("0xdeadbeef"),
      PStr("0x"),
      PStr("zz"),
      PStr("{\"params\":[]}"),
      PStr("0x7b22706172616d73223a5b5d7d"),
      PStr("") }

TxWithInput(input) ==
    PDict(<< <<"result", PDict(<< <<"hash", PStr("0xabc1")>>, <<"input", input>> >>)>> >>)

\* answers to eth_getTransactionByHash
FullTxDataResps ==
    { Raise("Timeout"),
      PList(<<>>),
      PDict(<<>>),
      PDict(<< <<"result", None>> >>),
      RateLimited,
      PDict(<< <<"result", PDict(<< <<"hash", PStr("0xabc1")>> >>)>> >>) }
    \cup { TxWithInput(input) : input \in FullInputs }

\* tokenConfig.context
FullContexts ==
    { PStr("{\"id\":\"xyz\"}"),
      PStr("{\"id\": 0}"),
      PStr("{\"id\": false}"),
      PStr("{\"id\": \"\"}"),
      PStr("{\"interface\":\"clanker.world\",\"messageId\":\"https://w/c/1\",\"id\":\"886870\"}"),
      PStr("{\"platform\": \"  \", \"n\": 7}"),
      PStr("{}"),
      PStr("{not json"),
      PStr(""),
      PStr("   "),
      PStr("plain text"),
      PStr("\"abc\""),
      PStr("\"\""),
      PStr("null"),
      PStr("[1, 2]"),
      PStr(" 7 "),
      PStr("{\"id\": 1.5}"),
      PStr("{\"id\": \"\\f\"}"),
      PStr("{\"tags\": [\"it's\"]}") }

OptionalIf(cond, key, value) == IF cond THEN << <<key, value>> >> ELSE <<>>

\* a decoded tokenConfig holding the fields named in present, and context
\* (Unset: no context field)
TokenConfigOf(present, context) ==
    PDict(OptionalIf("name" \in present, "name", PStr("DOGE"))
          \o OptionalIf("symbol" \in present, "symbol", PStr("DG"))
          \o OptionalIf("image" \in present, "image", PStr("https://img/m"))
          \o OptionalIf(context # Unset, "context", context)
          \o OptionalIf("originatingChainId" \in present, "originatingChainId", PInt(8453)))

TokenFields == {"name", "symbol", "image", "originatingChainId"}

\* a tuple as web3 returns it when it does not name the fields
PositionalTuple == PList(<< PStr("DOGE"), PStr("DG") >>)

FullTokenConfigs ==
    { Unset, PositionalTuple }
    \cup { TokenConfigOf(present, context) :
             present \in SUBSET TokenFields, context \in FullContexts \cup {Unset} }

FullRewardsConfigs ==
    { Unset,
      PDict(<<>>),
      PDict(<< <<"creatorReward", PInt(40)>>,
               <<"creatorRewardRecipient", PStr("0xABCdef01")>> >>),
      PList(<< PStr("0xABCdef01"), PInt(40) >>) }

\* a decoded deploymentConfig (Unset: the field is absent)
DeploymentConfigOf(token_config, rewards_config) ==
    PDict(OptionalIf(token_config # Unset, "tokenConfig", token_config)
          \o OptionalIf(rewards_config # Unset, "rewardsConfig", rewards_config))

\* what the ABI codec decodes the parameters to
FullParams ==
    { Raise("InsufficientDataBytes"),
      PDict(<<>>),
      PDict(<< <<"to", PStr("0xc1")>>, <<"amount", PInt(5)>> >>),
      PDict(<< <<"deploymentConfig", PositionalTuple>> >>) }
    \cup { PDict(<< <<"deploymentConfig", DeploymentConfigOf(tc, rc)>> >>) :
             tc \in FullTokenConfigs, rc \in FullRewardsConfigs }

FullEnv ==
    [messages |-> FullMessages, txhashResps |-> FullTxhashResps,
     txdataResps |-> FullTxDataResps, params |-> FullParams]

\* ------------------------------------------------------------------------
\* State
\* ------------------------------------------------------------------------

VARIABLES
    pc,        \* where each invocation of handle_message stands
    frame,     \* its local variables
    sent,      \* the replies it has sent, in order
    calls,     \* its calls of the three helper functions, in order
    env,       \* what its collaborators have answered so far
    outcome,   \* "running", "returned", or "propagated" (an exception left it)
    contract,  \* the module global contract, built from abi.json at startup
    overlapped \* history: the invocation took a step while another was under way

vars == <<pc, frame, sent, calls, env, outcome, contract, overlapped>>

LocalNames ==
    {"message_text", "txhash", "tx_data", "input_data_raw", "decoded", "name",
     "symbol", "image", "chain_id", "creator_reward_recipient", "context_raw", "context_json",
     "context_formatted", "reply"}

EnvNames == {"message", "ackOk", "txhashResp", "txdataResp", "params", "replyOk"}

\* the names bound as module globals: every invocation sees the binding
BindShared(fr, p, locals) ==
    [q \in DOMAIN fr |->
        [n \in DOMAIN fr[q] |-> IF n \in DOMAIN locals THEN locals[n] ELSE fr[q][n]]]

\* name = value for each name of locals, in the frame of invocation p
Bind(fr, p, locals) ==
    [q \in DOMAIN fr |->
        IF q = p
        THEN [n \in DOMAIN fr[q] |-> IF n \in DOMAIN locals THEN locals[n] ELSE fr[q][n]]
        ELSE fr[q]]

Init ==
    /\ pc = [p \in Procs |-> "idle"]
    /\ frame = [p \in Procs |-> [n \in LocalNames |-> Unset]]
    /\ sent = [p \in Procs |-> <<>>]
    /\ calls = [p \in Procs |-> <<>>]
    /\ env = [p \in Procs |-> [n \in EnvNames |-> Unset]]
    /\ outcome = [p \in Procs |-> "running"]
    /\ contract = ContractAbi
    /\ overlapped = [p \in Procs |-> FALSE]

\* the handler goes on as the stretch result r says: to the sending of a
\* reply, out through its except clause, or to the call at nextpc
GoOn(p, r, nextpc) ==
    /\ frame' = Bind(frame, p,
                     IF r.kind = "reply"
                     THEN r.locals @@ [reply |-> PStr(r.reply)]
                     ELSE r.locals)
    /\ pc' = [pc EXCEPT ![p] = CASE r.kind = "reply" -> "reply"
                                 [] r.kind = "raise" -> "done"
                                 [] OTHER -> nextpc]
    /\ outcome' = [outcome EXCEPT ![p] =
                     IF r.kind = "raise" THEN handle_message_except(r.e) ELSE @]

\* lines 113-118: the dispatcher calls handle_message with a text message
Receive(p, E) ==
    /\ pc[p] = "idle"
    /\ \E text \in E.messages :
         LET message_text == Strip(text) IN
         /\ env' = [env EXCEPT ![p].message = PStr(text)]
         /\ frame' = Bind(frame, p, [message_text |-> PStr(message_text)])
         /\ IF IsContractAddress(message_text)
            THEN /\ pc' = [pc EXCEPT ![p] = "ack"]
                 /\ UNCHANGED outcome
            ELSE /\ pc' = [pc EXCEPT ![p] = "done"]
                 /\ outcome' = [outcome EXCEPT ![p] = "returned"]
    /\ UNCHANGED <<sent, calls, contract>>

\* line 121: reply_text sends the acknowledgement, or raises
SendAck(p) ==
    /\ pc[p] = "ack"
    /\ \E ok \in BOOLEAN :
         /\ env' = [env EXCEPT ![p].ackOk = PBool(ok)]
         /\ IF ok
            THEN /\ sent' = [sent EXCEPT ![p] =
                               Append(@, ProcessingReply(frame[p].message_text.s))]
                 /\ pc' = [pc EXCEPT ![p] = "txhash"]
                 /\ UNCHANGED outcome
            ELSE /\ pc' = [pc EXCEPT ![p] = "done"]
                 /\ outcome' = [outcome EXCEPT ![p] = handle_message_except("NetworkError")]
                 /\ UNCHANGED sent
    /\ UNCHANGED <<frame, calls, contract>>

\* lines 122-125
GetCreationTxhash(p, E) ==
    /\ pc[p] = "txhash"
    /\ \E resp \in E.txhashResps :
         /\ env' = [env EXCEPT ![p].txhashResp = resp]
         /\ calls' = [calls EXCEPT ![p] =
                        Append(@, [fn |-> "get_creation_txhash", arg |-> frame[p].message_text])]
         /\ GoOn(p, AfterTxhash(get_creation_txhash(resp)), "txdata")
    /\ UNCHANGED <<sent, contract>>

\* lines 127-137
GetTransactionData(p, E) ==
    /\ pc[p] = "txdata"
    /\ \E resp \in E.txdataResps :
         /\ env' = [env EXCEPT ![p].txdataResp = resp]
         /\ calls' = [calls EXCEPT ![p] =
                        Append(@, [fn |-> "get_transaction_data", arg |-> frame[p].txhash])]
         /\ GoOn(p, AfterTxData(get_transaction_data(resp)), "decode")
    /\ UNCHANGED <<sent, contract>>

\* lines 139-191
Decode(p, E) ==
    /\ pc[p] = "decode"
    /\ \E params \in E.params :
         /\ env' = [env EXCEPT ![p].params = params]
         /\ calls' = [calls EXCEPT ![p] =
                        Append(@, [fn |-> "decode_input_with_web3",
                                   arg |-> frame[p].input_data_raw])]
         /\ GoOn(p, AfterDecode(decode_input_with_web3(contract, frame[p].input_data_raw,
                                                        params)), "done")
    /\ UNCHANGED <<sent, contract>>

\* lines 124, 129, 134, 141, 145, 150, 193: reply_text sends the reply, or
\* raises; either way the handler returns
SendReply(p) ==
    /\ pc[p] = "reply"
    /\ \E ok \in BOOLEAN :
         /\ env' = [env EXCEPT ![p].replyOk = PBool(ok)]
         /\ IF ok
            THEN /\ sent' = [sent EXCEPT ![p] = Append(@, frame[p].reply.s)]
                 /\ outcome' = [outcome EXCEPT ![p] = "returned"]
            ELSE /\ outcome' = [outcome EXCEPT ![p] = handle_message_except("NetworkError")]
                 /\ UNCHANGED sent
         /\ pc' = [pc EXCEPT ![p] = "done"]
    /\ UNCHANGED <<frame, calls, contract>>

Step(p, E) ==
    /\ \/ Receive(p, E)
       \/ SendAck(p)
       \/ GetCreationTxhash(p, E)
       \/ GetTransactionData(p, E)
       \/ Decode(p, E)
       \/ SendReply(p)
    /\ overlapped' = [overlapped EXCEPT ![p] =
                        @ \/ \E q \in Procs \ {p} : pc[q] \notin {"idle", "done"}]

\* one invocation, over every answer of the collaborators
Next == Step(1, FullEnv)

Spec == Init /\ [][Next]_vars

\* the answers the concurrent invocations draw from
SmallEnv ==
    [messages |-> {ValidAddress, "hello"},
     txhashResps |->
        { Raise("Timeout"),
          PDict(<< <<"result", PList(<< PDict(<< <<"txHash", PStr("0xabc1")>> >>) >>)>> >>) },
     txdataResps |->
        { RateLimited, TxWithInput(PStr(DeployInput)), TxWithInput(PStr(TransferInput)) },
     params |->
        { Raise("InsufficientDataBytes"),
          PDict(<< <<"deploymentConfig",
                     DeploymentConfigOf(TokenConfigOf(TokenFields, PStr("{\"id\":\"xyz\"}")),
                                        PDict(<< <<"creatorRewardRecipient",
                                                   PStr("0xABCdef01")>> >>))>> >>),
          PDict(<< <<"deploymentConfig",
                     DeploymentConfigOf(TokenConfigOf({"name"}, PStr("{not json")),
                                        Unset)>> >>) }]

\* the web server handles each update on a thread of its own: the
\* invocations interleave at their calls
NextConc == \E p \in Procs : Step(p, SmallEnv)

SpecConc == Init /\ [][NextConc]_vars

\* the replies handle_message sends when it runs alone, the collaborators
\* answering as in e
FinishAlone(acked, r, e) ==
    IF r.kind = "reply" /\ e.replyOk = PBool(TRUE) THEN Append(acked, r.reply) ELSE acked

HandleAlone(e) ==
    LET message_text == Strip(e.message.s) IN
    IF ~IsContractAddress(message_text) \/ e.ackOk # PBool(TRUE) THEN <<>>
    ELSE LET acked == << ProcessingReply(message_text) >>
             r1 == AfterTxhash(get_creation_txhash(e.txhashResp))
         IN  IF r1.kind # "next" THEN FinishAlone(acked, r1, e)
             ELSE LET r2 == AfterTxData(get_transaction_data(e.txdataResp)) IN
                  IF r2.kind # "next" THEN FinishAlone(acked, r2, e)
                  ELSE FinishAlone(acked,
                                   AfterDecode(decode_input_with_web3(
                                       ContractAbi, r2.locals.input_data_raw, e.params)),
                                   e)

\* ------------------------------------------------------------------------
\* The payload classes of the specification (section 4.1)
\* ------------------------------------------------------------------------

\* whether the text of the hex digits h, stripped, starts with "{"
RECURSIVE HexTextStartsWithBrace(_)
HexTextStartsWithBrace(h) ==
    IF Len(h) < 2 THEN FALSE
    ELSE LET byte == Lower(SubSeq(h, 1, 2)) IN
         IF byte \in {"20", "0a", "09", "0d"}
         THEN HexTextStartsWithBrace(SubSeq(h, 3, Len(h)))
         ELSE byte = "7b"

Classify(s) ==
    IF StartsWith(Strip(s), "{") THEN "AlreadyJson"
    ELSE LET h == IF StartsWith(s, "0x") THEN SubSeq(s, 3, Len(s)) ELSE s IN
         IF IsHex(h) /\ Len(h) % 2 = 0 /\ HexTextStartsWithBrace(h)
         THEN "HexEncodedText"
         ELSE "AbiBinary"

\* ------------------------------------------------------------------------
\* Properties
\* ------------------------------------------------------------------------

\* sub in s
Contains(s, sub) ==
    \E i \in 1..(Len(s) - Len(sub) + 1) : SubSeq(s, i, i + Len(sub) - 1) = sub

\* s has a line that starts with prefix
HasLine(s, prefix) == StartsWith(s, prefix) \/ Contains(s, "\n" \o prefix)

\* the handler has built a reply
Replying(p) == frame[p].reply # Unset

\* the reply is the token-deployment record
RecordProduced(p) == Replying(p) /\ StartsWith(frame[p].reply.s, RecordHeader)

FailureReplies ==
    {NoTxhashReply, NoTxDataReply, NoInputReply, DecodeErrorReply, NoConfigReply}

IsFailureReply(text) ==
    text \in FailureReplies \/ StartsWith(text, "This is not a deployToken transaction (function: ")

\* the handler is past decode_input_with_web3, which returned a call
Decoded(p) == frame[p].decoded # Unset /\ frame[p].decoded.t = "dict"

FunctionOf(p) == Get(frame[p].decoded, "function", None)

ConfigOf(p) == Get(Get(frame[p].decoded, "args", PDict(<<>>)), "deploymentConfig", None)

\* the decoded call holds a deploymentConfig with both substructures
BothConfigs(p) ==
    /\ ConfigOf(p).t = "dict"
    /\ HasKey(ConfigOf(p), "tokenConfig")
    /\ HasKey(ConfigOf(p), "rewardsConfig")

\* all sends of the invocation so far went through
SendsOk(p) == env[p].ackOk # PBool(FALSE) /\ env[p].replyOk # PBool(FALSE)

\* the decoded structures, where present, hold their fields by name
ShapedByName(p) ==
    /\ ConfigOf(p).t \in {"none", "dict"}
    /\ ConfigOf(p).t = "dict" =>
          /\ Get(ConfigOf(p), "tokenConfig", PDict(<<>>)).t = "dict"
          /\ Get(ConfigOf(p), "rewardsConfig", PDict(<<>>)).t = "dict"

\* C1: the record is produced only for a deployToken call whose
\* deploymentConfig holds both tokenConfig and rewardsConfig; every other
\* decoded call (of structures with named fields) ends in a failure reply
C1_RecordOnlyWithBothConfigs ==
    \A p \in Procs :
        Decoded(p) =>
            /\ RecordProduced(p) => FunctionOf(p) = PStr("deployToken") /\ BothConfigs(p)
            /\ ShapedByName(p) /\ ~(FunctionOf(p) = PStr("deployToken") /\ BothConfigs(p)) =>
                  Replying(p) /\ IsFailureReply(frame[p].reply.s)

\* the required fields of the specification that the decoded call lacks
MissingFields(p) ==
    LET token_config == Get(ConfigOf(p), "tokenConfig", PDict(<<>>))
        rewards_config == Get(ConfigOf(p), "rewardsConfig", PDict(<<>>))
    IN  { f \in {"name", "symbol", "context"} : ~HasKey(token_config, f) }
        \cup { f \in {"creatorRewardRecipient"} : ~HasKey(rewards_config, f) }

\* a deployToken call in the named-struct shape: tokenConfig and
\* rewardsConfig are there, with their fields by name
NamedStructCall(p) ==
    /\ Decoded(p)
    /\ FunctionOf(p) = PStr("deployToken")
    /\ BothConfigs(p)
    /\ Get(ConfigOf(p), "tokenConfig", None).t = "dict"
    /\ Get(ConfigOf(p), "rewardsConfig", None).t = "dict"

\* C2: a deployToken call that lacks a required field (name, symbol, context,
\* creatorRewardRecipient) yields no record but a failure that names exactly
\* the missing fields
C2_MissingFieldsReported ==
    \A p \in Procs :
        NamedStructCall(p) /\ MissingFields(p) # {} =>
            /\ ~RecordProduced(p)
            /\ Replying(p)
            /\ \A f \in {"name", "symbol", "context", "creatorRewardRecipient"} :
                  Contains(frame[p].reply.s, f) <=> f \in MissingFields(p)

\* the context text does not parse
ContextParseFails(p) == json_loads(frame[p].context_raw).t = "raise"

\* the raw context is a string with something other than whitespace in it
NonBlank(v) == v.t = "str" /\ Strip(v.s) # ""

\* C3, as claimed: a context that parses is used parsed; one that does not
\* (malformed, empty or absent) is shown raw, and the rendered context is
\* never empty
C3_RawContextAlwaysVisible ==
    \A p \in Procs :
        RecordProduced(p) =>
            IF ContextParseFails(p)
            THEN /\ frame[p].context_formatted.s # ""
                 /\ Contains(frame[p].context_formatted.s, Str(frame[p].context_raw))
            ELSE frame[p].context_json = json_loads(frame[p].context_raw)

\* C3, amended: a context that parses is used parsed; one that does not is
\* kept as {"context": raw}, and is shown unchanged, as the only line
\* "context: <raw>" of the record, exactly when it is a non-blank string; an
\* empty, blank or absent context renders as the empty text
C3_RawContextVisibleWhenNonBlank ==
    \A p \in Procs :
        RecordProduced(p) =>
            IF ContextParseFails(p)
            THEN /\ frame[p].context_json = PDict(<< <<"context", frame[p].context_raw>> >>)
                 /\ frame[p].context_formatted.s =
                       IF NonBlank(frame[p].context_raw)
                       THEN "context: " \o frame[p].context_raw.s
                       ELSE ""
                 /\ Contains(frame[p].reply.s,
                             "*Context:*\n" \o frame[p].context_formatted.s \o "\n\n")
            ELSE frame[p].context_json = json_loads(frame[p].context_raw)

\* a record was sent whose malformed context is shown raw
C3_Witness ==
    /\ pc[1] = "done"
    /\ sent[1] # <<>>
    /\ StartsWith(sent[1][Len(sent[1])], RecordHeader)
    /\ frame[1].context_raw = PStr("{not json")
    /\ Contains(sent[1][Len(sent[1])], "*Context:*\ncontext: {not json\n\n")

\* the extraction of lines 153-181 has not run
NothingExtracted(p) ==
    \A n \in {"name", "symbol", "image", "chain_id", "creator_reward_recipient", "context_raw",
              "context_json", "context_formatted"} : frame[p][n] = Unset

\* C4: a decoded call of another function than deployToken ends in the
\* unsupported-function reply that carries the function's name, whatever its
\* arguments; nothing is extracted and no record is sent
C4_UnsupportedFunction ==
    \A p \in Procs :
        Decoded(p) /\ FunctionOf(p) # PStr("deployToken") =>
            /\ frame[p].reply =
                  PStr("This is not a deployToken transaction (function: "
                       \o FunctionOf(p).s \o ").")
            /\ NothingExtracted(p)
            /\ \A i \in 1..Len(sent[p]) : ~StartsWith(sent[p][i], RecordHeader)
            /\ pc[p] = "done" /\ env[p].replyOk = PBool(TRUE) =>
                  sent[p][Len(sent[p])] = frame[p].reply.s

\* a transfer call with deployToken-shaped arguments was refused
C4_Witness ==
    /\ pc[1] = "done"
    /\ Decoded(1)
    /\ FunctionOf(1) = PStr("transfer")
    /\ ConfigOf(1) # None
    /\ BothConfigs(1)
    /\ sent[1][Len(sent[1])] = "This is not a deployToken transaction (function: transfer)."

\* C5: whatever the collaborators do, decode_input_with_web3 returns a dict
\* or None, no exception leaves handle_message, and a handler that is not
\* done can take its next step
C5_Total ==
    \A p \in Procs :
        /\ outcome[p] # "propagated"
        /\ (pc[p] = "done") <=> (outcome[p] = "returned")
        /\ frame[p].decoded.t \in {"unset", "none", "dict"}
        /\ pc[p] # "done" => ENABLED Step(p, FullEnv)

\* the handler returned after an exception of each kind: the decoder raised
\* and the sending of the reply raised
C5_Witness ==
    /\ pc[1] = "done"
    /\ outcome[1] = "returned"
    /\ env[1].params = Raise("InsufficientDataBytes")
    /\ frame[1].decoded = None
    /\ env[1].replyOk = PBool(FALSE)

\* C6: only call data of class AbiBinary is handed to the ABI decoder
C6_OnlyAbiBinaryDecoded ==
    \A p \in Procs :
        \A i \in 1..Len(calls[p]) :
            calls[p][i].fn = "decode_input_with_web3" =>
                /\ Classify(calls[p][i].arg.s) \in {"AlreadyJson", "HexEncodedText", "AbiBinary"}
                /\ Classify(calls[p][i].arg.s) = "AbiBinary"

\* C7: a context that parses to an object shows its id, whatever the value,
\* and an explicit entry for the id when the object has none
C7_ContextIdSurfaced ==
    \A p \in Procs :
        RecordProduced(p) /\ ~ContextParseFails(p) /\ frame[p].context_json.t = "dict" =>
            IF HasKey(frame[p].context_json, "id")
            THEN HasLine(frame[p].context_formatted.s,
                         "id: " \o Str(Get(frame[p].context_json, "id", None)))
            ELSE HasLine(frame[p].context_formatted.s, "id: ")

\* C8: no invocation writes the module globals, and each invocation, however
\* the others interleave with it, sends the replies it sends when run alone
\* with the same answers of its collaborators
C8_NoInterference ==
    /\ contract = ContractAbi
    /\ \A p \in Procs : pc[p] = "done" => sent[p] = HandleAlone(env[p])

\* two invocations ran interleaved and sent different records
C8_Witness ==
    /\ pc[1] = "done" /\ pc[2] = "done"
    /\ overlapped[1] /\ overlapped[2]
    /\ Len(sent[1]) = 2 /\ Len(sent[2]) = 2
    /\ StartsWith(sent[1][2], RecordHeader)
    /\ StartsWith(sent[2][2], RecordHeader)
    /\ sent[1][2] # sent[2][2]

\* C9: a message that is no contract address gets no reply and no explorer
\* call; one that is gets the acknowledgement and then exactly one terminal
\* reply, whatever the lookups, the decoding and the context parsing yield
C9_ReplyProtocol ==
    \A p \in Procs :
        pc[p] = "done" /\ SendsOk(p) =>
            IF IsContractAddress(frame[p].message_text.s)
            THEN /\ Len(sent[p]) = 2
                 /\ sent[p][1] = ProcessingReply(frame[p].message_text.s)
                 /\ IsFailureReply(sent[p][2]) \/ StartsWith(sent[p][2], RecordHeader)
            ELSE sent[p] = <<>> /\ calls[p] = <<>>

StageOrder == <<"get_creation_txhash", "get_transaction_data", "decode_input_with_web3">>

\* C10: the three stages are called at most once each and in order; the
\* transaction is fetched only for a non-empty txhash, the decoder is called
\* only with the non-empty input string of a non-empty transaction, and no
\* stage runs after one that failed
C10_StageOrder ==
    \A p \in Procs :
        /\ Len(calls[p]) <= 3
        /\ \A i \in 1..Len(calls[p]) : calls[p][i].fn = StageOrder[i]
        /\ Len(calls[p]) >= 2 =>
              /\ calls[p][2].arg = get_creation_txhash(env[p].txhashResp)
              /\ Truthy(calls[p][2].arg)
        /\ Len(calls[p]) >= 3 =>
              /\ Truthy(get_transaction_data(env[p].txdataResp))
              /\ calls[p][3].arg =
                    Get(get_transaction_data(env[p].txdataResp), "input", None)
              /\ calls[p][3].arg.t = "str"
              /\ calls[p][3].arg.s # ""
        /\ Len(calls[p]) >= 1 /\ ~Truthy(get_creation_txhash(env[p].txhashResp)) =>
              Len(calls[p]) = 1 /\ pc[p] \in {"reply", "done"}
        /\ Len(calls[p]) >= 2 /\ env[p].txdataResp # Unset
              /\ AfterTxData(get_transaction_data(env[p].txdataResp)).kind # "next" =>
              Len(calls[p]) = 2 /\ pc[p] \in {"reply", "done"}

\* all three stages ran, each on what the stage before it returned
C10_Witness ==
    /\ Len(calls[1]) = 3
    /\ pc[1] = "done"
    /\ calls[1][2].arg = PStr("0xabc1")
    /\ calls[1][3].arg = PStr(DeployInput)

====
